---- MODULE Spec2Model ----
(***************************************************************************)
(* The blog platform contract (contract/src/contract.ts): the registry     *)
(* BlogContract with its four collections and six change methods, and the  *)
(* BlogPost entity with its update and reconstruct logic.                  *)
(*                                                                         *)
(* One step of the model is one call of a change method, run to            *)
(* completion (the host runs one call at a time), or one advance of the    *)
(* block timestamp.  A call whose assert fails panics: the host discards   *)
(* its writes and reports the message.                                     *)
(***************************************************************************)
EXTENDS Naturals, Integers, Sequences, FiniteSets, TLC

\* ------------------------------------------------------------------------
\* Bounds of the model
\* ------------------------------------------------------------------------
MaxTime == 1          \* block timestamps range over 0..MaxTime
MaxList == 2          \* most accounts in a list passed to add/remove_moderators
MaxPatchKeys == 2     \* most keys in an update_blog patch

\* ------------------------------------------------------------------------
\* Value domains
\* ------------------------------------------------------------------------
\* near.currentAccountId(): the account the contract is deployed on.
currentAccountId == "blog"

Accounts == {"blog", "alice", "bob"}

\* Values near.randomSeed() can return.  The seed is a value of the block,
\* so two calls can be handed the same one.
Seeds == {"s1", "s2"}

\* The accounts on the denylist.  No method of the contract writes the
\* denylist, so it is what it was at deployment.
Denylisted == {"bob"}

\* near.attachedDeposit(), in yoctoNEAR.
Deposits == {0, 1, 2}

Titles == {"t1", "t2"}
Cids == {"c1"}
Thumbs == {"h1"}

\* null / undefined: what a void method returns and what get() gives for a
\* missing key.
Null == [null |-> TRUE]

\* The panic messages of the asserts, and of the call decorator.
OK == "ok"
ERR_DEPOSIT == "You need to deposit exactly 1yoctoNEAR!"
ERR_NOT_AUTHOR == "You are not registered as an author, please register!"
ERR_DENYLIST == "This account is in the denylist!"
ERR_PERMISSION == "You do not have permission to perform this action!"
ERR_PERMISSION_REMOVE == "You don't have permission to perform this action!"
ERR_NOT_FOUND == "The requested blog post doesn't exist!"
ERR_NOT_PAYABLE == "Function is not payable"

VARIABLES
    moderators,   \* UnorderedSet<AccountId>; only contains() reads it
    authors,      \* UnorderedSet<AccountId>, in its iteration order
    denylist,     \* UnorderedSet<AccountId>; no method writes it
    blog_posts,   \* UnorderedMap<BlogPost>, the posts in iteration order
    now,          \* near.blockTimestamp()
    used_ids      \* every id a post was ever stored under

vars == <<moderators, authors, denylist, blog_posts, now, used_ids>>

\* ------------------------------------------------------------------------
\* Collections (near-sdk-js UnorderedSet / UnorderedMap as the contract
\* uses them)
\* ------------------------------------------------------------------------
Range(s) == {s[i] : i \in 1..Len(s)}

\* UnorderedSet.contains
SeqContains(s, x) == x \in Range(s)

\* Mutant of SetInsert: the element is pushed without the contains() test.
SetInsert_push(s, x) == Append(s, x)

\* UnorderedSet.set: an element already present is left where it is.
SetInsert(s, x) == IF SeqContains(s, x) THEN s ELSE Append(s, x)

\* Index of the post stored under key, 0 when there is none.
IndexOf(posts, key) ==
    IF \E i \in 1..Len(posts) : posts[i].id = key
    THEN CHOOSE i \in 1..Len(posts) : posts[i].id = key
    ELSE 0

Keys(posts) == {posts[i].id : i \in 1..Len(posts)}

\* UnorderedMap.get: the stored value, or null.
MapGet(posts, key) ==
    IF IndexOf(posts, key) = 0 THEN Null ELSE posts[IndexOf(posts, key)]

\* UnorderedMap.set: a present key keeps its place, a new key goes last.
MapSet(posts, key, value) ==
    IF IndexOf(posts, key) = 0
    THEN Append(posts, value)
    ELSE [posts EXCEPT ![IndexOf(posts, key)] = value]

\* Mutant of MapRemove: the last entry is dropped without being swapped into
\* the freed place.
MapRemove_pop(posts, key) ==
    IF IndexOf(posts, key) = 0 THEN posts
    ELSE SubSeq(posts, 1, Len(posts) - 1)

\* UnorderedMap.remove: swap-remove, the last entry takes the freed place.
MapRemove(posts, key) ==
    LET i == IndexOf(posts, key)
        n == Len(posts)
    IN  IF i = 0 THEN posts
        ELSE IF i = n THEN SubSeq(posts, 1, n - 1)
        ELSE SubSeq([posts EXCEPT ![i] = posts[n]], 1, n - 1)

\* ------------------------------------------------------------------------
\* BlogPost
\* ------------------------------------------------------------------------
\* new Date(v): a Date holding the time value v; new Date(d) of a Date d
\* copies d's time value.
NewDate(v) == v

\* BlogPost.constructor with all seven parameters given.
BlogPost(title, ipfs_cid, thumnbnail_cid, id, author_id, created_at, last_updated_at) ==
    [title |-> title, ipfs_cid |-> ipfs_cid, thumnbnail_cid |-> thumnbnail_cid,
     id |-> id, author_id |-> author_id,
     created_at |-> created_at, last_updated_at |-> last_updated_at]

\* Mutant of NewBlogPost: the two CID arguments change places.
NewBlogPost_swapped(title, ipfs_cid, thumnbnail_cid, seed, signer, timestamp) ==
    BlogPost(title, thumnbnail_cid, ipfs_cid, seed, signer,
             NewDate(timestamp), NewDate(timestamp))

\* new BlogPost(title, ipfs_cid, thumnbnail_cid): the defaults of the other
\* four parameters, read from the call's context.
NewBlogPost(title, ipfs_cid, thumnbnail_cid, seed, signer, timestamp) ==
    BlogPost(title, ipfs_cid, thumnbnail_cid, seed, signer,
             NewDate(timestamp), NewDate(timestamp))

\* Mutant of reconstruct: the two dates are left to the constructor's
\* defaults, the current block timestamp.
reconstruct_redated(blog) ==
    BlogPost(blog.title, blog.ipfs_cid, blog.thumnbnail_cid, blog.id,
             blog.author_id, NewDate(now), NewDate(now))

\* BlogPost.reconstruct
reconstruct(blog) ==
    BlogPost(blog.title, blog.ipfs_cid, blog.thumnbnail_cid, blog.id,
             blog.author_id, NewDate(blog.created_at), NewDate(blog.last_updated_at))

RecognizedKeys == {"author_id", "title", "ipfs_cid", "thumnbnail_cid"}

\* The keys a patch can carry: the recognized ones and one that is not.
PatchKeys == RecognizedKeys \cup {"id"}

\* The value a caller passes under the key id.
OtherIds == {"s0"}

PatchValues(key) ==
    CASE key = "author_id" -> Accounts \cup {""}
      [] key = "title" -> Titles
      [] key = "ipfs_cid" -> Cids
      [] key = "thumnbnail_cid" -> Thumbs
      [] key = "id" -> OtherIds

\* The update_blog arguments: objects with at most MaxPatchKeys keys.
Patches ==
    UNION {{p \in [K -> UNION {PatchValues(k) : k \in K}] :
                \A k \in K : p[k] \in PatchValues(k)} :
           K \in {K \in SUBSET PatchKeys : Cardinality(K) <= MaxPatchKeys}}

\* The first statement of BlogPost.update: the signer is the post's author.
update_allowed(this, signer) == signer = this.author_id

\* Mutant of update: the recognized keys of a patch are applied although
\* another of its keys is not recognized.
update_partial(this, updatedBlog) ==
    [f \in DOMAIN this |->
        IF f \in DOMAIN updatedBlog \cap RecognizedKeys
        THEN updatedBlog[f] ELSE this[f]]

\* The rest of BlogPost.update: the post after the patch.
update(this, updatedBlog) ==
    LET keysToUpdate == DOMAIN updatedBlog IN
    IF /\ Cardinality(keysToUpdate) > 0
       /\ \A key \in keysToUpdate : key \in RecognizedKeys
    THEN [f \in DOMAIN this |->
            IF f \in keysToUpdate THEN updatedBlog[f] ELSE this[f]]
    ELSE this

\* ------------------------------------------------------------------------
\* Guards
\* ------------------------------------------------------------------------
\* Mutant of assert_one_yocto: any deposit of at least one yoctoNEAR passes.
assert_at_least_one_yocto(deposit) == deposit >= 1

\* #assert_one_yocto
assert_one_yocto(deposit) == deposit = 1

\* #assert_is_author
assert_is_author(account_id) == SeqContains(authors, account_id)

\* Mutant of assert_not_in_deny_list: the negation is missing.
assert_in_deny_list(account_id) == account_id \in denylist

\* #assert_not_in_deny_list
assert_not_in_deny_list(account_id) == account_id \notin denylist

\* Mutant of is_owner_or_moderator: registered authors pass as well.
is_owner_moderator_or_author(signer) ==
    \/ signer = currentAccountId
    \/ signer \in moderators
    \/ SeqContains(authors, signer)

\* The check add_moderators and remove_moderators share.
is_owner_or_moderator(signer) ==
    signer = currentAccountId \/ signer \in moderators

\* Mutant of has_author_id: the patch's author_id is never looked at.
has_author_id_never(update_blog) == FALSE

\* JavaScript truthiness of update_blog.author_id: a missing key and the
\* empty string are falsy.
has_author_id(update_blog) ==
    "author_id" \in DOMAIN update_blog /\ update_blog["author_id"] # ""

\* @call({}) without payableFunction: a call with a deposit panics before
\* the method body runs.
payable_ok(payableFunction, deposit) == payableFunction \/ deposit = 0

\* ------------------------------------------------------------------------
\* The change methods.  Each is the outcome of one call in the current
\* state: the panic message or OK, the return value, and the collections as
\* the call leaves them.
\* ------------------------------------------------------------------------
\* A panic: the message is reported and no write survives.
Panic(msg) ==
    [err |-> msg, ret |-> Null,
     moderators |-> moderators, authors |-> authors, blog_posts |-> blog_posts]

Return(value, mods, auths, posts) ==
    [err |-> OK, ret |-> value,
     moderators |-> mods, authors |-> auths, blog_posts |-> posts]

\* The moderator lists a caller can pass: up to MaxList accounts, none
\* twice (moderators is a set, a repeated target is added or removed once).
Lists ==
    UNION {{l \in [1..n -> Accounts] : \A i, j \in 1..n : l[i] = l[j] => i = j} :
           n \in 0..MaxList}

\* moderators.extend(list)
extend(set, list) == set \cup Range(list)

\* Mutant of remove_each: only the first account of the list is removed.
remove_first(set, list) ==
    IF Len(list) = 0 THEN set ELSE set \ {list[1]}

\* moderators.forEach((moderator) => this.moderators.remove(moderator))
remove_each(set, list) == set \ Range(list)

\* Mutant of add_moderators: denylisted targets are skipped and the others
\* added, instead of the call being rejected.
add_moderators_skipping(signer, deposit, list) ==
    IF ~assert_one_yocto(deposit) THEN Panic(ERR_DEPOSIT)
    ELSE IF ~assert_not_in_deny_list(signer) THEN Panic(ERR_DENYLIST)
    ELSE IF ~is_owner_or_moderator(signer) THEN Panic(ERR_PERMISSION)
    ELSE Return(Null, moderators \cup (Range(list) \ denylist), authors, blog_posts)

add_moderators(signer, deposit, list) ==
    IF ~assert_one_yocto(deposit) THEN Panic(ERR_DEPOSIT)
    ELSE IF ~assert_not_in_deny_list(signer) THEN Panic(ERR_DENYLIST)
    ELSE IF ~is_owner_or_moderator(signer) THEN Panic(ERR_PERMISSION)
    ELSE IF \E i \in 1..Len(list) : ~assert_not_in_deny_list(list[i])
         THEN Panic(ERR_DENYLIST)
    ELSE Return(Null, extend(moderators, list), authors, blog_posts)

remove_moderators(signer, deposit, list) ==
    IF ~assert_one_yocto(deposit) THEN Panic(ERR_DEPOSIT)
    ELSE IF ~is_owner_or_moderator(signer) THEN Panic(ERR_PERMISSION)
    ELSE Return(Null, remove_each(moderators, list), authors, blog_posts)

\* Mutant of register: a second registration takes the signer out again.
register_toggling(signer, deposit) ==
    IF ~assert_one_yocto(deposit) THEN Panic(ERR_DEPOSIT)
    ELSE IF ~assert_not_in_deny_list(signer) THEN Panic(ERR_DENYLIST)
    ELSE IF SeqContains(authors, signer)
         THEN Return(Null, moderators,
                     SelectSeq(authors, LAMBDA a : a # signer), blog_posts)
    ELSE Return(Null, moderators, SetInsert(authors, signer), blog_posts)

register(signer, deposit) ==
    IF ~assert_one_yocto(deposit) THEN Panic(ERR_DEPOSIT)
    ELSE IF ~assert_not_in_deny_list(signer) THEN Panic(ERR_DENYLIST)
    ELSE Return(Null, moderators, SetInsert(authors, signer), blog_posts)

create_blog_post(signer, deposit, title, ipfs_cid, thumnbnail_cid, seed, timestamp) ==
    IF ~payable_ok(TRUE, deposit) THEN Panic(ERR_NOT_PAYABLE)
    ELSE IF ~assert_is_author(signer) THEN Panic(ERR_NOT_AUTHOR)
    ELSE LET blogPost ==
                 NewBlogPost(title, ipfs_cid, thumnbnail_cid, seed, signer, timestamp)
         IN  Return(blogPost, moderators, authors,
                    MapSet(blog_posts, blogPost.id, blogPost))

update_blog_post(signer, deposit, blog_id, update_blog) ==
    IF ~payable_ok(TRUE, deposit) THEN Panic(ERR_NOT_PAYABLE)
    ELSE IF ~assert_is_author(signer) THEN Panic(ERR_NOT_AUTHOR)
    ELSE IF MapGet(blog_posts, blog_id) = Null THEN Panic(ERR_NOT_FOUND)
    ELSE LET blogPost == reconstruct(MapGet(blog_posts, blog_id)) IN
         IF /\ has_author_id(update_blog)
            /\ ~assert_not_in_deny_list(update_blog["author_id"])
         THEN Panic(ERR_DENYLIST)
         ELSE IF ~update_allowed(blogPost, signer) THEN Panic(ERR_PERMISSION)
         ELSE Return(update(blogPost, update_blog), moderators, authors,
                     MapSet(blog_posts, blog_id, update(blogPost, update_blog)))

remove_blog_post(signer, deposit, blog_id) ==
    IF ~payable_ok(FALSE, deposit) THEN Panic(ERR_NOT_PAYABLE)
    ELSE IF ~assert_is_author(signer) THEN Panic(ERR_NOT_AUTHOR)
    ELSE IF MapGet(blog_posts, blog_id) = Null THEN Panic(ERR_NOT_FOUND)
    ELSE LET blogPost == reconstruct(MapGet(blog_posts, blog_id)) IN
         IF signer # blogPost.author_id THEN Panic(ERR_PERMISSION_REMOVE)
         ELSE Return(MapGet(blog_posts, blog_id), moderators, authors,
                     MapRemove(blog_posts, blog_id))

\* get_blog_post: a view, it reads the state and writes nothing.
get_blog_post(posts, blog_id) == MapGet(posts, blog_id)

\* Array.prototype.slice(start, end) for 0 <= start <= end.
slice(s, start, end) ==
    IF start >= Len(s) THEN <<>>
    ELSE SubSeq(s, start + 1, IF end < Len(s) THEN end ELSE Len(s))

\* get_blog_posts: a view.  author_id is the filter, "" when the caller
\* gave none (a missing and an empty author_id are both falsy).
get_blog_posts(posts, limit, from, author_id) ==
    LET byAuthor(blogPost) ==
            IF author_id # "" THEN blogPost.author_id = author_id ELSE TRUE
    IN  slice(SelectSeq(posts, byAuthor), from, from + limit)

\* ------------------------------------------------------------------------
\* Steps: one call, run to completion
\* ------------------------------------------------------------------------
\* The host commits what the call leaves; the message and the return value
\* go back to the caller.  A step is one call with any signer, deposit and
\* arguments; calls with the same outcome are the same step.
Handle(out) ==
    /\ moderators' = out.moderators
    /\ authors' = out.authors
    /\ blog_posts' = out.blog_posts
    /\ used_ids' = used_ids \cup Keys(out.blog_posts)
    /\ UNCHANGED <<denylist, now>>


CallAddModerators ==
    \E out \in {add_moderators(signer, deposit, list) :
                   signer \in Accounts, deposit \in Deposits, list \in Lists} :
        Handle(out)

CallRemoveModerators ==
    \E out \in {remove_moderators(signer, deposit, list) :
                   signer \in Accounts, deposit \in Deposits, list \in Lists} :
        Handle(out)

CallRegister ==
    \E out \in {register(signer, deposit) :
                   signer \in Accounts, deposit \in Deposits} :
        Handle(out)

\* The constructor reads the seed and the block timestamp from the call's
\* context.
CallCreateBlogPost ==
    \E out \in {create_blog_post(signer, deposit, title, ipfs_cid,
                                  thumnbnail_cid, seed, now) :
                   signer \in Accounts, deposit \in Deposits, title \in Titles,
                   ipfs_cid \in Cids, thumnbnail_cid \in Thumbs, seed \in Seeds} :
        Handle(out)

CallUpdateBlogPost ==
    \E out \in {update_blog_post(signer, deposit, blog_id, update_blog) :
                   signer \in Accounts, deposit \in Deposits, blog_id \in Seeds,
                   update_blog \in Patches} :
        Handle(out)

CallRemoveBlogPost ==
    \E out \in {remove_blog_post(signer, deposit, blog_id) :
                   signer \in Accounts, deposit \in Deposits, blog_id \in Seeds} :
        Handle(out)

\* The block timestamp advances between calls.
Tick ==
    /\ now < MaxTime
    /\ now' = now + 1
    /\ UNCHANGED <<moderators, authors, denylist, blog_posts, used_ids>>

\* ------------------------------------------------------------------------
\* Specification
\* ------------------------------------------------------------------------
Init ==
    /\ moderators = {}
    /\ authors = <<>>
    /\ denylist = Denylisted
    /\ blog_posts = <<>>
    /\ now = 0
    /\ used_ids = {}

Next ==
    \/ CallAddModerators
    \/ CallRemoveModerators
    \/ CallRegister
    \/ CallCreateBlogPost
    \/ CallUpdateBlogPost
    \/ CallRemoveBlogPost
    \/ Tick

Spec == Init /\ [][Next]_vars

\* ------------------------------------------------------------------------
\* The posts collection with three ids in play: registration, creation,
\* transfer and retitling, and removal, with the deposits the methods
\* accept.
\* ------------------------------------------------------------------------
PostIds == Seeds \cup {"s3"}

ListingRegister ==
    \E out \in {register(signer, 1) : signer \in Accounts} : Handle(out)

ListingCreate ==
    \E out \in {create_blog_post(signer, 0, "t1", ipfs_cid, thumnbnail_cid,
                                  seed, now) :
                   signer \in Accounts, ipfs_cid \in Cids,
                   thumnbnail_cid \in Thumbs, seed \in PostIds} :
        Handle(out)

ListingUpdate ==
    \E out \in {update_blog_post(signer, 0, blog_id, update_blog) :
                   signer \in Accounts, blog_id \in PostIds,
                   update_blog \in {p \in Patches :
                                      DOMAIN p \in {{"author_id"}, {"title"}}}} :
        Handle(out)

ListingRemove ==
    \E out \in {remove_blog_post(signer, 0, blog_id) :
                   signer \in Accounts, blog_id \in PostIds} :
        Handle(out)

NextListing ==
    \/ ListingRegister
    \/ ListingCreate
    \/ ListingUpdate
    \/ ListingRemove

SpecListing == Init /\ [][NextListing]_vars

\* ------------------------------------------------------------------------
\* Vocabulary of the properties
\* ------------------------------------------------------------------------
\* The error classes the panic messages fall in.
ErrorKind(msg) ==
    CASE msg = ERR_DEPOSIT -> "PaymentRequired"
      [] msg \in {ERR_NOT_AUTHOR, ERR_PERMISSION, ERR_PERMISSION_REMOVE} ->
            "PermissionDenied"
      [] msg = ERR_DENYLIST -> "Denylisted"
      [] msg = ERR_NOT_FOUND -> "NotFound"
      [] OTHER -> msg

\* The call left the three writable collections as they are.
Untouched(out) ==
    /\ out.moderators = moderators
    /\ out.authors = authors
    /\ out.blog_posts = blog_posts

Stored(k) == MapGet(blog_posts, k)

\* Accounts that are registered authors and own a stored post.
OwnerOf(k) == Stored(k).author_id

\* ------------------------------------------------------------------------
\* C1
\* ------------------------------------------------------------------------
\* C1: in every reachable state, every stored post's author_id is a member of
\* authors.
C1_PostAuthorsRegistered ==
    \A i \in 1..Len(blog_posts) :
        SeqContains(authors, blog_posts[i].author_id)

\* ------------------------------------------------------------------------
\* C2
\* ------------------------------------------------------------------------
\* C2: a successful create_blog_post stores the new post under an id no
\* stored post has and no post ever had, and adds exactly one post.
C2_CreateUsesFreshId ==
    \A signer \in Accounts, deposit \in Deposits, title \in Titles,
       ipfs_cid \in Cids, thumnbnail_cid \in Thumbs, seed \in Seeds :
        LET out == create_blog_post(signer, deposit, title, ipfs_cid,
                                    thumnbnail_cid, seed, now) IN
        out.err = OK =>
            /\ out.ret.id \notin Keys(blog_posts)
            /\ out.ret.id \notin used_ids
            /\ Len(out.blog_posts) = Len(blog_posts) + 1

\* ------------------------------------------------------------------------
\* C3
\* ------------------------------------------------------------------------
Rejected(out, kind) == ErrorKind(out.err) = kind /\ Untouched(out)

\* add_moderators with d among the targets, by the deploying account or a
\* moderator, with the deposit attached.
C3_AddModerators(d) ==
    \A signer \in Accounts, list \in Lists :
        (is_owner_or_moderator(signer) /\ d \in Range(list))
            => Rejected(add_moderators(signer, 1, list), "Denylisted")

\* update_blog_post that sets author_id to d, by the post's registered
\* current author.
C3_Transfer(d) ==
    \A signer \in Accounts, deposit \in Deposits, blog_id \in Seeds,
       update_blog \in Patches :
        (/\ Stored(blog_id) # Null
         /\ OwnerOf(blog_id) = signer
         /\ assert_is_author(signer)
         /\ "author_id" \in DOMAIN update_blog
         /\ update_blog["author_id"] = d)
            => Rejected(update_blog_post(signer, deposit, blog_id, update_blog),
                        "Denylisted")

\* C3 as stated: for every denylisted d, register() by d, add_moderators
\* with d in the list and a transfer of a post to d are each rejected with
\* Denylisted and change nothing.
C3_DenylistedRejected ==
    \A d \in denylist :
        /\ \A deposit \in Deposits : Rejected(register(d, deposit), "Denylisted")
        /\ C3_AddModerators(d)
        /\ C3_Transfer(d)

\* C3 amended: the same, for register() with exactly one yoctoNEAR attached.
C3_DenylistedRejectedWithDeposit ==
    \A d \in denylist :
        /\ Rejected(register(d, 1), "Denylisted")
        /\ C3_AddModerators(d)
        /\ C3_Transfer(d)

\* A state in which all three rejections happen: a moderator other than the
\* deploying account adds d, and a registered author transfers its post to d.
C3_Witness ==
    \E d \in denylist, signer \in moderators \ {currentAccountId}, k \in Seeds :
        /\ register(d, 1).err = ERR_DENYLIST
        /\ add_moderators(signer, 1, <<signer, d>>).err = ERR_DENYLIST
        /\ Stored(k) # Null
        /\ assert_is_author(OwnerOf(k))
        /\ update_blog_post(OwnerOf(k), 0, k, [author_id |-> d]).err = ERR_DENYLIST

\* ------------------------------------------------------------------------
\* C4
\* ------------------------------------------------------------------------
\* The posts stored before and after the call have the same author_id.
AuthorsKept(out) ==
    \A k \in Keys(blog_posts) \cap Keys(out.blog_posts) :
        MapGet(out.blog_posts, k).author_id = OwnerOf(k)

\* No call other than update_blog_post changes a stored post's author_id, and
\* an update_blog_post that does is signed by the post's author.
C4_ChangedOnlyByAuthorsUpdate ==
    /\ \A signer \in Accounts, deposit \in Deposits, list \in Lists :
          /\ AuthorsKept(add_moderators(signer, deposit, list))
          /\ AuthorsKept(remove_moderators(signer, deposit, list))
    /\ \A signer \in Accounts, deposit \in Deposits :
          AuthorsKept(register(signer, deposit))
    /\ \A signer \in Accounts, deposit \in Deposits, title \in Titles,
          ipfs_cid \in Cids, thumnbnail_cid \in Thumbs, seed \in Seeds :
          AuthorsKept(create_blog_post(signer, deposit, title, ipfs_cid,
                                       thumnbnail_cid, seed, now))
    /\ \A signer \in Accounts, deposit \in Deposits, blog_id \in Seeds :
          AuthorsKept(remove_blog_post(signer, deposit, blog_id))
    /\ \A signer \in Accounts, deposit \in Deposits, blog_id \in Seeds,
          update_blog \in Patches :
          LET out == update_blog_post(signer, deposit, blog_id, update_blog) IN
          \/ AuthorsKept(out)
          \/ (out.err = OK /\ signer = OwnerOf(blog_id))

\* update_blog_post of a stored post by any account but its author is
\* rejected with PermissionDenied and leaves the post as it is.
C4_OthersRejected ==
    \A signer \in Accounts, deposit \in Deposits, blog_id \in Seeds,
       update_blog \in Patches :
        (Stored(blog_id) # Null /\ signer # OwnerOf(blog_id))
            => LET out == update_blog_post(signer, deposit, blog_id, update_blog)
               IN  /\ ErrorKind(out.err) = "PermissionDenied"
                   /\ MapGet(out.blog_posts, blog_id) = Stored(blog_id)

\* C4: a stored post's author_id changes only through a successful
\* update_blog_post signed by its current author; update_blog_post by any
\* other account fails with PermissionDenied and leaves the post unchanged.
C4_OnlyAuthorChangesAuthor ==
    C4_ChangedOnlyByAuthorsUpdate /\ C4_OthersRejected

\* ------------------------------------------------------------------------
\* C5
\* ------------------------------------------------------------------------
\* remove_blog_post(blog_id) of a stored post with the given deposit: by
\* another account it is rejected with PermissionDenied and blog_posts is
\* unchanged; by the registered author it deletes that post alone and
\* returns it, and get_blog_post then gives null.
C5_Remove(signer, deposit, blog_id) ==
    LET out == remove_blog_post(signer, deposit, blog_id) IN
    IF signer # OwnerOf(blog_id)
    THEN /\ ErrorKind(out.err) = "PermissionDenied"
         /\ out.blog_posts = blog_posts
    ELSE assert_is_author(signer) =>
            /\ out.err = OK
            /\ out.ret = Stored(blog_id)
            /\ Keys(out.blog_posts) = Keys(blog_posts) \ {blog_id}
            /\ Len(out.blog_posts) = Len(blog_posts) - 1
            /\ \A k \in Keys(blog_posts) \ {blog_id} :
                  MapGet(out.blog_posts, k) = Stored(k)
            /\ get_blog_post(out.blog_posts, blog_id) = Null

\* C5 as stated: remove_blog_post of an existing post, whatever is attached.
C5_RemoveByAuthorOnly ==
    \A signer \in Accounts, deposit \in Deposits, blog_id \in Seeds :
        Stored(blog_id) # Null => C5_Remove(signer, deposit, blog_id)

\* C5 amended: the same, for calls with no deposit attached.
C5_RemoveByAuthorOnlyNoDeposit ==
    \A signer \in Accounts, blog_id \in Seeds :
        Stored(blog_id) # Null => C5_Remove(signer, 0, blog_id)

\* A post has been removed (its id was used and get_blog_post gives null),
\* another is stored, and its author can remove it while another registered
\* author cannot.
C5_Witness ==
    /\ \E k \in used_ids : get_blog_post(blog_posts, k) = Null
    /\ Len(blog_posts) = 1
    /\ remove_blog_post(blog_posts[1].author_id, 0, blog_posts[1].id).err = OK
    /\ \E signer \in Range(authors) :
          remove_blog_post(signer, 0, blog_posts[1].id).err = ERR_PERMISSION_REMOVE

\* ------------------------------------------------------------------------
\* C6
\* ------------------------------------------------------------------------
HasDenylisted(list) == \E i \in 1..Len(list) : list[i] \in denylist

\* C6: a call of any of the six methods that fails leaves the collections
\* exactly as they were; add_moderators with a denylisted target adds none
\* of the targets.
C6_RejectedCallsAtomic ==
    /\ denylist = Denylisted
    /\ \A signer \in Accounts, deposit \in Deposits, list \in Lists :
          /\ add_moderators(signer, deposit, list).err # OK
                => Untouched(add_moderators(signer, deposit, list))
          /\ HasDenylisted(list)
                => /\ add_moderators(signer, deposit, list).err # OK
                   /\ add_moderators(signer, deposit, list).moderators = moderators
          /\ remove_moderators(signer, deposit, list).err # OK
                => Untouched(remove_moderators(signer, deposit, list))
    /\ \A signer \in Accounts, deposit \in Deposits :
          register(signer, deposit).err # OK
             => Untouched(register(signer, deposit))
    /\ \A signer \in Accounts, deposit \in Deposits, title \in Titles,
          ipfs_cid \in Cids, thumnbnail_cid \in Thumbs, seed \in Seeds :
          LET out == create_blog_post(signer, deposit, title, ipfs_cid,
                                      thumnbnail_cid, seed, now) IN
          out.err # OK => Untouched(out)
    /\ \A signer \in Accounts, deposit \in Deposits, blog_id \in Seeds,
          update_blog \in Patches :
          LET out == update_blog_post(signer, deposit, blog_id, update_blog) IN
          out.err # OK => Untouched(out)
    /\ \A signer \in Accounts, deposit \in Deposits, blog_id \in Seeds :
          LET out == remove_blog_post(signer, deposit, blog_id) IN
          out.err # OK => Untouched(out)

\* A moderator other than the deploying account passes a list whose second
\* target is denylisted and whose first is no moderator yet; posts are
\* stored, so the post methods have something to leave untouched.
C6_Witness ==
    \E signer \in moderators \ {currentAccountId}, a \in Accounts, d \in denylist :
        /\ a \notin moderators /\ a \notin denylist
        /\ add_moderators(signer, 1, <<a, d>>).err = ERR_DENYLIST
        /\ Len(blog_posts) > 0
        /\ update_blog_post(signer, 0, blog_posts[1].id, [title |-> "t2"]).err # OK

\* ------------------------------------------------------------------------
\* C7
\* ------------------------------------------------------------------------
\* C7: create_blog_post by an account not in authors is rejected with
\* PermissionDenied and blog_posts is unchanged; by a registered author it
\* succeeds whatever the deposit, returns a post with the signer as author_id
\* and the given title and references, and stores that post under its id.
C7_CreateByAuthors ==
    \A signer \in Accounts, deposit \in Deposits, title \in Titles,
       ipfs_cid \in Cids, thumnbnail_cid \in Thumbs, seed \in Seeds :
        LET out == create_blog_post(signer, deposit, title, ipfs_cid,
                                    thumnbnail_cid, seed, now) IN
        IF ~SeqContains(authors, signer)
        THEN /\ ErrorKind(out.err) = "PermissionDenied"
             /\ out.blog_posts = blog_posts
        ELSE /\ out.err = OK
             /\ out.ret.author_id = signer
             /\ out.ret.title = title
             /\ out.ret.ipfs_cid = ipfs_cid
             /\ out.ret.thumnbnail_cid = thumnbnail_cid
             /\ MapGet(out.blog_posts, out.ret.id) = out.ret

\* A post created by a registered author is stored, and an account that has
\* not registered is rejected.
C7_Witness ==
    /\ \E i \in 1..Len(blog_posts) :
          /\ SeqContains(authors, blog_posts[i].author_id)
          /\ create_blog_post(blog_posts[i].author_id, 2, "t2", "c1", "h1",
                              "s2", now).err = OK
    /\ \E signer \in Accounts \ denylist :
          create_blog_post(signer, 0, "t1", "c1", "h1", "s1", now).err
             = ERR_NOT_AUTHOR

\* ------------------------------------------------------------------------
\* C8
\* ------------------------------------------------------------------------
\* An empty patch, or one with a key that is not recognized.
Ignored(update_blog) ==
    \/ DOMAIN update_blog = {}
    \/ \E key \in DOMAIN update_blog : key \notin RecognizedKeys

\* update_blog_post by the registered current author raises no error and
\* returns and stores the post as it was.
C8_NoOp(signer, deposit, blog_id, update_blog) ==
    LET out == update_blog_post(signer, deposit, blog_id, update_blog) IN
    /\ out.err = OK
    /\ out.ret = Stored(blog_id)
    /\ out.blog_posts = blog_posts

C8_ByAuthor(signer, blog_id) ==
    /\ Stored(blog_id) # Null
    /\ signer = OwnerOf(blog_id)
    /\ assert_is_author(signer)

\* C8 as stated: update_blog_post by the registered current author with an
\* empty patch or a patch with an unrecognized key applies nothing, raises
\* no error and returns the post unchanged.
C8_IgnoredPatchIsNoOp ==
    \A signer \in Accounts, deposit \in Deposits, blog_id \in Seeds,
       update_blog \in Patches :
        (C8_ByAuthor(signer, blog_id) /\ Ignored(update_blog))
            => C8_NoOp(signer, deposit, blog_id, update_blog)

\* C8 amended: the same, for patches whose author_id, if any, is not a
\* denylisted account.
C8_IgnoredPatchIsNoOpUnlessDenylisted ==
    \A signer \in Accounts, deposit \in Deposits, blog_id \in Seeds,
       update_blog \in Patches :
        (/\ C8_ByAuthor(signer, blog_id)
         /\ Ignored(update_blog)
         /\ ~("author_id" \in DOMAIN update_blog
              /\ update_blog["author_id"] \in denylist))
            => C8_NoOp(signer, deposit, blog_id, update_blog)

\* The author of a stored post with title t1 passes {title: t2, id: ...}:
\* the call returns OK and the title is still t1.
C8_Witness ==
    \E k \in Seeds :
        /\ C8_ByAuthor(OwnerOf(k), k)
        /\ Stored(k).title = "t1"
        /\ LET out == update_blog_post(OwnerOf(k), 0, k,
                                       [title |-> "t2", id |-> "s0"])
           IN  out.err = OK /\ out.ret.title = "t1"
        /\ update_blog_post(OwnerOf(k), 0, k, <<>>).err = OK

C10_RegisterIdempotent ==
    /\ denylist = Denylisted
    /\ \A a \in Accounts, deposit \in Deposits :
          LET out == register(a, deposit) IN
          /\ out.moderators = moderators
          /\ out.blog_posts = blog_posts
          /\ (a \notin denylist /\ deposit = 1) =>
                /\ out.err = OK
                /\ SeqContains(out.authors, a)
                /\ SeqContains(authors, a) => out.authors = authors
                /\ ~SeqContains(authors, a) => out.authors = Append(authors, a)

\* Two accounts have registered, and the first registers again.
C10_Witness ==
    /\ Len(authors) = 2
    /\ register(authors[1], 1).err = OK
    /\ register(authors[1], 1).authors = authors

\* ------------------------------------------------------------------------
\* C11
\* ------------------------------------------------------------------------
\* The signers that are neither the deploying account nor a moderator.
Outsiders == Accounts \ (moderators \cup {currentAccountId})

\* C11 as stated: add_moderators and remove_moderators signed by an account
\* that is neither the deploying account nor a moderator fail with
\* PermissionDenied and leave moderators unchanged, whatever else holds of
\* the call.
C11_OutsidersDenied ==
    \A signer \in Outsiders, deposit \in Deposits, list \in Lists :
        /\ ErrorKind(add_moderators(signer, deposit, list).err) = "PermissionDenied"
        /\ add_moderators(signer, deposit, list).moderators = moderators
        /\ ErrorKind(remove_moderators(signer, deposit, list).err) = "PermissionDenied"
        /\ remove_moderators(signer, deposit, list).moderators = moderators

\* C11 amended: with exactly one yoctoNEAR attached, remove_moderators by
\* such a signer fails with PermissionDenied, add_moderators fails with
\* PermissionDenied when the signer is not denylisted and with Denylisted
\* when it is, and whatever the deposit neither call changes moderators;
\* being a registered author makes no difference.
C11_OutsidersDeniedWithDeposit ==
    \A signer \in Outsiders, list \in Lists :
        /\ ErrorKind(add_moderators(signer, 1, list).err) =
              (IF signer \in denylist THEN "Denylisted" ELSE "PermissionDenied")
        /\ ErrorKind(remove_moderators(signer, 1, list).err) = "PermissionDenied"
        /\ \A deposit \in Deposits :
              /\ Untouched(add_moderators(signer, deposit, list))
              /\ Untouched(remove_moderators(signer, deposit, list))

\* There is a moderator, and a registered author that is not one is denied
\* both adding itself and removing that moderator.
C11_Witness ==
    \E m \in moderators, signer \in Outsiders :
        /\ SeqContains(authors, signer)
        /\ add_moderators(signer, 1, <<signer>>).err = ERR_PERMISSION
        /\ remove_moderators(signer, 1, <<m>>).err = ERR_PERMISSION

\* ------------------------------------------------------------------------
\* C12
\* ------------------------------------------------------------------------
\* Every stored post, as get_blog_posts lists them without a filter.
Listing(posts) == get_blog_posts(posts, Len(posts), 0, "")

\* Place of the post with this id in a listing, 0 when it is not listed.
PlaceOf(listing, id) ==
    IF \E i \in 1..Len(listing) : listing[i].id = id
    THEN CHOOSE i \in 1..Len(listing) : listing[i].id = id
    ELSE 0

\* get_blog_posts gives the half-open slice [from, from + limit) of the
\* listed posts whose author_id is the filter; a from at or beyond their
\* number gives the empty list.
SliceOfFiltered(posts) ==
    \A limit \in 0..Cardinality(PostIds), from \in 0..Cardinality(PostIds),
       author_id \in Accounts \cup {""} :
        LET all == Listing(posts)
            places == {i \in 1..Len(all) :
                          author_id = "" \/ all[i].author_id = author_id}
            got == get_blog_posts(posts, limit, from, author_id)
            \* the i-th of the filtered posts
            nth(i) == CHOOSE p \in places :
                          Cardinality({q \in places : q < p}) = i - 1
        IN  /\ Len(got) <= limit
            /\ Len(got) = limit \/ from + Len(got) = Cardinality(places)
                                \/ (from >= Cardinality(places) /\ got = <<>>)
            /\ \A i \in 1..Len(got) : got[i] = all[nth(from + i)]

\* A step keeps the listing in creation order: posts listed before and
\* after the step keep their relative order, and a post stored by the step
\* is listed after the posts that were there before.
CreationOrderKept ==
    LET old == Listing(blog_posts)
        new == Listing(blog_posts')
    IN  \A i, j \in 1..Len(new) :
            (i < j /\ PlaceOf(old, new[j].id) # 0) =>
                /\ PlaceOf(old, new[i].id) # 0
                /\ PlaceOf(old, new[i].id) < PlaceOf(old, new[j].id)

\* C12: get_blog_posts(limit, from, author_id) returns the slice
\* [from, from + limit) of the stored posts with that author_id (all posts
\* without a filter), in the order the posts were created, after any
\* history of creates, updates, transfers and removals.
C12_PaginationInCreationOrder ==
    [][SliceOfFiltered(blog_posts') /\ CreationOrderKept]_vars

\* ------------------------------------------------------------------------
\* C13
\* ------------------------------------------------------------------------
\* A step that leaves a record under k leaves its id and created_at as they
\* were.
IdentityKept(k) ==
    (Stored(k) # Null /\ MapGet(blog_posts', k) # Null) =>
        /\ MapGet(blog_posts', k).id = Stored(k).id
        /\ MapGet(blog_posts', k).created_at = Stored(k).created_at

\* C13: from the step a post is stored under k until remove_blog_post
\* removes it, the record stored under k keeps its id and its created_at
\* across every operation by any caller.
C13_IdAndCreatedAtKept ==
    [][\A k \in Seeds : IdentityKept(k)]_vars

\* ------------------------------------------------------------------------
\* C14
\* ------------------------------------------------------------------------
\* C14: authors only grows.  Every call of every change method leaves each
\* account that is in authors in authors; the only call that can add an
\* account is register(), and the account it adds is its signer.
C14_AuthorsOnlyGrow ==
    /\ \A signer \in Accounts, deposit \in Deposits :
          LET out == register(signer, deposit) IN
          /\ Range(authors) \subseteq Range(out.authors)
          /\ Range(out.authors) \ Range(authors) \subseteq {signer}
    /\ \A signer \in Accounts, deposit \in Deposits, list \in Lists :
          /\ add_moderators(signer, deposit, list).authors = authors
          /\ remove_moderators(signer, deposit, list).authors = authors
    /\ \A signer \in Accounts, deposit \in Deposits, blog_id \in Seeds :
          /\ \A title \in Titles, ipfs_cid \in Cids, thumnbnail_cid \in Thumbs :
                create_blog_post(signer, deposit, title, ipfs_cid,
                                 thumnbnail_cid, blog_id, now).authors = authors
          /\ \A update_blog \in Patches :
                update_blog_post(signer, deposit, blog_id, update_blog).authors
                    = authors
          /\ remove_blog_post(signer, deposit, blog_id).authors = authors

\* Two accounts have registered, a post has been created and removed, and
\* registering once more leaves both accounts in authors.
C14_Witness ==
    /\ Len(authors) = 2
    /\ \E k \in used_ids : Stored(k) = Null
    /\ \A a \in Range(authors) : register(a, 1).authors = authors

\* ------------------------------------------------------------------------
\* C15
\* ------------------------------------------------------------------------
\* add_moderators, remove_moderators and register with a deposit other than
\* one yoctoNEAR are rejected with PaymentRequired and change nothing,
\* whoever signs and whatever the arguments.
PaymentGuardFirst ==
    \A signer \in Accounts, deposit \in Deposits \ {1} :
        /\ Rejected(register(signer, deposit), "PaymentRequired")
        /\ \A list \in Lists :
              /\ Rejected(add_moderators(signer, deposit, list), "PaymentRequired")
              /\ Rejected(remove_moderators(signer, deposit, list), "PaymentRequired")

\* create_blog_post and update_blog_post do with any deposit what they do
\* with none.
CreateAndUpdateAnyDeposit ==
    \A signer \in Accounts, deposit \in Deposits, blog_id \in Seeds :
        /\ \A title \in Titles, ipfs_cid \in Cids, thumnbnail_cid \in Thumbs :
              create_blog_post(signer, deposit, title, ipfs_cid, thumnbnail_cid,
                               blog_id, now)
                = create_blog_post(signer, 0, title, ipfs_cid, thumnbnail_cid,
                                   blog_id, now)
        /\ \A update_blog \in Patches :
              update_blog_post(signer, deposit, blog_id, update_blog)
                = update_blog_post(signer, 0, blog_id, update_blog)

\* C15 as stated: the payment guard comes first in add_moderators,
\* remove_moderators and register, and create_blog_post, update_blog_post
\* and remove_blog_post do with any deposit what they do with none.
C15_PaymentGuard ==
    /\ PaymentGuardFirst
    /\ CreateAndUpdateAnyDeposit
    /\ \A signer \in Accounts, deposit \in Deposits, blog_id \in Seeds :
          remove_blog_post(signer, deposit, blog_id)
            = remove_blog_post(signer, 0, blog_id)

\* C15 amended: the same for the payment guard and for create_blog_post and
\* update_blog_post; remove_blog_post takes no deposit: with any deposit
\* attached it is rejected as not payable and changes nothing.
C15_PaymentGuardRemoveNotPayable ==
    /\ PaymentGuardFirst
    /\ CreateAndUpdateAnyDeposit
    /\ \A signer \in Accounts, deposit \in Deposits \ {0}, blog_id \in Seeds :
          Rejected(remove_blog_post(signer, deposit, blog_id), ERR_NOT_PAYABLE)

\* A moderator and a denylisted account are both turned away for the
\* deposit, and the author of a stored post can retitle it with two
\* yoctoNEAR attached and remove it only with none.
C15_Witness ==
    /\ \E m \in moderators \ {currentAccountId} :
          add_moderators(m, 2, <<m>>).err = ERR_DEPOSIT
    /\ \E d \in denylist : register(d, 0).err = ERR_DEPOSIT
    /\ \E k \in Keys(blog_posts) :
          /\ update_blog_post(OwnerOf(k), 2, k, [title |-> "t2"]).err = OK
          /\ remove_blog_post(OwnerOf(k), 0, k).err = OK
          /\ remove_blog_post(OwnerOf(k), 1, k).err = ERR_NOT_PAYABLE

\* ------------------------------------------------------------------------
\* C16
\* ------------------------------------------------------------------------
\* update_blog_post and remove_blog_post of k, signed by any registered
\* author with no deposit attached, fail with NotFound and change nothing.
NotFoundFor(k) ==
    \A signer \in Range(authors) :
        /\ \A update_blog \in Patches :
              Rejected(update_blog_post(signer, 0, k, update_blog), "NotFound")
        /\ Rejected(remove_blog_post(signer, 0, k), "NotFound")

\* C16: update_blog_post and remove_blog_post by a registered author for a
\* blog_id that is not a key of blog_posts fail with NotFound and leave the
\* collections unchanged, and once remove_blog_post has removed k they go
\* on failing so after every later step.  (Stated for calls with no deposit
\* attached, which the claim includes.)
C16_AbsentIdNotFound ==
    [][\A k \in Seeds :
          Stored(k) = Null =>
              /\ NotFoundFor(k)
              /\ k \in used_ids => NotFoundFor(k)']_vars

\* ------------------------------------------------------------------------
\* C17
\* ------------------------------------------------------------------------
\* C17: the denylist stays the one the contract was deployed with, and no
\* denylisted account is in authors, in moderators, or the author_id of a
\* stored post.
C17_NoDenylistedMember ==
    /\ denylist = Denylisted
    /\ \A d \in denylist :
          /\ ~SeqContains(authors, d)
          /\ d \notin moderators
          /\ \A i \in 1..Len(blog_posts) : blog_posts[i].author_id # d

\* There are authors, a moderator other than the deploying account and a
\* post that has been transferred, and a denylisted account is turned away
\* from all three collections.
C17_Witness ==
    \E d \in denylist, m \in moderators \ {currentAccountId},
       k \in Keys(blog_posts) :
        /\ SeqContains(authors, OwnerOf(k))
        /\ \E i \in 1..Len(blog_posts) :
              ~SeqContains(authors, blog_posts[i].author_id)
        /\ register(d, 1).err = ERR_DENYLIST
        /\ add_moderators(m, 1, <<d>>).err = ERR_DENYLIST
        /\ update_blog_post(OwnerOf(k), 0, k, [author_id |-> d]).err = ERR_DENYLIST

\* ------------------------------------------------------------------------
\* C18
\* ------------------------------------------------------------------------
\* Account a can add moderators (any list without a denylisted account) and
\* remove moderators (any list), the deposit attached.
Authorized(a) ==
    \A list \in Lists :
        /\ remove_moderators(a, 1, list).err = OK
        /\ Range(list) \cap denylist = {} => add_moderators(a, 1, list).err = OK

\* Account a is rejected with PermissionDenied by both methods, with each
\* of the given deposits.
DeniedWith(a, deposits) ==
    \A list \in Lists, deposit \in deposits :
        /\ Rejected(add_moderators(a, deposit, list), "PermissionDenied")
        /\ Rejected(remove_moderators(a, deposit, list), "PermissionDenied")

\* A successful add_moderators(L) leaves the old set united with L, a
\* successful remove_moderators(L) the old set minus L; every moderator is
\* authorized, and the deploying account can remove whatever the set holds.
MembershipGivesAuthority ==
    /\ \A signer \in Accounts, list \in Lists :
          /\ add_moderators(signer, 1, list).err = OK =>
                add_moderators(signer, 1, list).moderators
                    = moderators \cup Range(list)
          /\ remove_moderators(signer, 1, list).err = OK =>
                remove_moderators(signer, 1, list).moderators
                    = moderators \ Range(list)
    /\ \A a \in moderators : Authorized(a)
    /\ \A list \in Lists : remove_moderators(currentAccountId, 1, list).err = OK

\* After a step, the accounts it added are authorized and the accounts it
\* removed, the deploying account aside, are rejected.
AuthorityFollows(deposits) ==
    /\ \A a \in moderators' \ moderators : Authorized(a)'
    /\ \A a \in (moderators \ moderators') \ {currentAccountId} :
          DeniedWith(a, deposits)'

\* C18 as stated: moderator authority follows membership across sequences
\* of calls; a removed account other than the deploying account is
\* rejected with PermissionDenied from then on, whatever it attaches.
C18_AuthorityFollowsMembership ==
    []MembershipGivesAuthority /\ [][AuthorityFollows(Deposits)]_vars

\* C18 amended: the same, the removed account being rejected with
\* PermissionDenied when it attaches exactly one yoctoNEAR.
C18_AuthorityFollowsMembershipWithDeposit ==
    []MembershipGivesAuthority /\ [][AuthorityFollows({1})]_vars

\* The deploying account and another account are moderators; the other
\* account can remove the deploying account from the set, and the deploying
\* account can still remove it in turn.
C18_Witness ==
    \E m \in moderators \ {currentAccountId} :
        /\ currentAccountId \in moderators
        /\ Authorized(m)
        /\ remove_moderators(m, 1, <<currentAccountId, m>>).moderators = {}
        /\ remove_moderators(currentAccountId, 1, <<m>>).moderators
              = {currentAccountId}

====
